---- MODULE Spec2Model ----
(***************************************************************************)
(* Minesweeper: the session controller of src/ms_controller.py             *)
(* (MinesweeperController) over the board model it imports from ms_model   *)
(* (MinesweeperModel, Field and the three exceptions).  ms_model is not    *)
(* part of the sources at hand; its operations uncover, switch_tagging,    *)
(* field_state and the mine placement are modelled from section 4.1 of     *)
(* the specification.  Everything else is translated from the controller.  *)
(***************************************************************************)
EXTENDS Integers, Sequences, FiniteSets, TLC

\* ------------------------------------------------------------------ bounds
\* The boards, MinesweeperController(columns, rows, mines): at most MaxColumns
\* columns and MaxRows rows, and at most MaxWideCells fields; among them is one
\* with a field that has all eight neighbours.  A session is followed for
\* MaxSteps player actions (clicks and right-clicks) on the boards of at most
\* MaxCells fields, and for its first action on the larger ones.
MaxColumns == 3
MaxRows == 3
MaxCells == 6
MaxWideCells == 9
MaxSteps == 3

Boards == { b \in (1 .. MaxColumns) \X (1 .. MaxRows) : b[1] * b[2] <= MaxWideCells }

\* ------------------------------------------------------------------- state
VARIABLES
    columns,        \* self.columns
    rows,           \* self.rows
    mine_count,     \* self.mines: the configured number of mines
    mines,          \* model.mines: the set of mined coordinates
    fields,         \* the model's field states, by coordinate
    game_running,   \* self.game_running
    widget,         \* the widget shown at each grid cell: kind, text, style, enabled
    message,        \* the status bar's last message
    last,           \* the last player action and what the model answered to it
    steps           \* the number of player actions so far

vars == << columns, rows, mine_count, mines, fields, game_running, widget, message, last, steps >>

\* The number of player actions a session on the board is followed for.
SessionLength == IF columns * rows <= MaxCells THEN MaxSteps ELSE 1

\* ------------------------------------------------------------ field states
COVERED == "COVERED"
UNCOVERED == "UNCOVERED"
MINE_TAGGED == "MINE_TAGGED"
MINE_POSSIBLE == "MINE_POSSIBLE"

FieldState == {COVERED, UNCOVERED, MINE_TAGGED, MINE_POSSIBLE}

\* The grid coordinates (x, y): x is the column, y the row.
Coords == (0 .. columns - 1) \X (0 .. rows - 1)

\* The linear button positions the signal mappers deliver (n in range(columns * rows)).
Positions == 0 .. columns * rows - 1

\* ------------------------------------------------------------- stylesheets
MINE_MISSED_STYLE == "MINE_MISSED_STYLE"
MINE_FOUND_STYLE == "MINE_FOUND_STYLE"
MINE_TAGGED_STYLE == "MINE_TAGGED_STYLE"
MINE_POSSIBLE_STYLE == "MINE_POSSIBLE_STYLE"

\* UNCOVERED_STYLE[n] of the source is UNCOVERED_STYLE[n + 1] here (the colour of the digit).
UNCOVERED_STYLE ==
    << "", "#0200fd", "#017e00", "red", "#010180", "#7f0300", "#008180", "black", "#808080" >>

\* str(n) for the counts 1..8.
Digits == << "1", "2", "3", "4", "5", "6", "7", "8" >>

\* The status bar messages.
MSG_RESTART == "You need to restart the game!"
MSG_UNTAG == "You need to untag the field before you can open it"
MSG_LOST == "You lost :("

\* The cross drawn on a mine when the game is lost.
CROSS == "X"

\* The number of nested calls of __uncover_field the interpreter's stack has
\* room for under one call of button_clicked: the recursion limit less the
\* frames of the caller and those model.uncover needs.  The controller sets
\* none of them, so it is any number, and it may differ from click to click.
\* No flood fill nests deeper than columns * rows - 1 calls, so that value
\* stands for every deeper stack as well.
StackRooms == 0 .. columns * rows - 1

\* ------------------------------------------------- the board model (ms_model)
\* The placement of the mines: n distinct coordinates of the grid are taken
\* one after another and marked as mined.  The set of layouts it can end in.
RECURSIVE place_mines(_, _)
place_mines(grid, n) ==
    IF n = 0
    THEN { {} }
    ELSE UNION { { ms \cup {c} : c \in grid \ ms } : ms \in place_mines(grid, n - 1) }

\* MinesweeperModel(width, height, n_mines): the mine layouts the constructor
\* can produce.
MinesweeperModel(width, height, n_mines) ==
    place_mines((0 .. width - 1) \X (0 .. height - 1), n_mines)

\* The up to eight neighbours scanned around (x, y): the fields one step away
\* in each direction, those beyond an edge of the board left out.
neighbours(x, y) ==
    { << x + dx, y + dy >> : dx \in {-1, 0, 1}, dy \in {-1, 0, 1} }
        \cap (Coords \ { << x, y >> })

\* adjacent_mine_count of the field (x, y): the scan of its neighbours, counting
\* those that are mined.
adjacent_mine_count(ms, x, y) == Cardinality({ c \in neighbours(x, y) : c \in ms })

\* model.field_state(x, y): a pure read.
field_state(s, x, y) == s.fields[<< x, y >>]

\* model.uncover(x, y): the exception raised ("none" when it returns), the
\* fields afterwards and the count returned.
uncover(s, x, y) ==
    LET p == << x, y >> IN
    IF s.fields[p] = UNCOVERED
    THEN [exc |-> "AlreadyUncoveredError", fields |-> s.fields, n |-> -1]
    ELSE IF s.fields[p] \in {MINE_TAGGED, MINE_POSSIBLE}
    THEN [exc |-> "FieldTaggedError", fields |-> s.fields, n |-> -1]
    ELSE IF p \in s.mines
    THEN [exc |-> "MineFound", fields |-> [s.fields EXCEPT ![p] = UNCOVERED], n |-> -1]
    ELSE [exc |-> "none", fields |-> [s.fields EXCEPT ![p] = UNCOVERED],
          n |-> adjacent_mine_count(s.mines, x, y)]

\* One step along the tagging ring.
next_tag(st) ==
    CASE st = COVERED -> MINE_TAGGED
      [] st = MINE_TAGGED -> MINE_POSSIBLE
      [] OTHER -> COVERED

\* model.switch_tagging(x, y): the exception raised, the fields afterwards and
\* the state returned.
switch_tagging(s, x, y) ==
    LET p == << x, y >> IN
    IF s.fields[p] = UNCOVERED
    THEN [exc |-> "AlreadyUncoveredError", fields |-> s.fields, new_state |-> ""]
    ELSE [exc |-> "none", fields |-> [s.fields EXCEPT ![p] = next_tag(@)],
          new_state |-> next_tag(s.fields[p])]

\* ---------------------------------------------------------- the controller
\* The session as the handlers see it: the model, the flag, the widgets, the
\* status bar, and the log of the calls of model.uncover made by the running
\* handler (coordinates, exception, count, recursion depth).  error is the
\* exception that no except clause catches and that is on its way out of the
\* handler ("none" while there is none), and room the number of nested calls
\* of __uncover_field the stack has room for, which the handler is given.
Session ==
    [mines |-> mines, fields |-> fields, game_running |-> game_running,
     widget |-> widget, message |-> message, log |-> << >>, new_state |-> "",
     exc |-> "not_called", error |-> "none", room |-> columns * rows - 1]

\* A fresh QPushButton.
Button == [kind |-> "QPushButton", text |-> "", style |-> "", enabled |-> TRUE]

\* Label with the text left empty for a count of 1 as well ("n > 1").
Label_empty_up_to_one(n) ==
    [kind |-> "QLabel", text |-> IF n > 1 THEN Digits[n] ELSE "",
     style |-> UNCOVERED_STYLE[n + 1], enabled |-> TRUE]

\* The QLabel that replaces the button of an uncovered field: str(n) for a
\* count above 0, in the style UNCOVERED_STYLE[n].
Label(n) ==
    [kind |-> "QLabel", text |-> IF n > 0 THEN Digits[n] ELSE "",
     style |-> UNCOVERED_STYLE[n + 1], enabled |-> TRUE]

\* __lose showing the mines by uncovering them in the model.
lose_uncovers_mines(s) ==
    [s EXCEPT
        !.game_running = FALSE,
        !.fields = [c \in Coords |-> IF c \in s.mines THEN UNCOVERED ELSE s.fields[c]],
        !.widget = [c \in Coords |->
            LET w == IF s.widget[c].kind = "QPushButton"
                     THEN [s.widget[c] EXCEPT !.enabled = FALSE]
                     ELSE s.widget[c]
            IN IF c \in s.mines
               THEN [w EXCEPT !.text = CROSS,
                              !.style = IF field_state(s, c[1], c[2]) = COVERED
                                        THEN MINE_MISSED_STYLE
                                        ELSE MINE_FOUND_STYLE]
               ELSE w],
        !.message = MSG_LOST]

\* __lose without the assignment to game_running.
lose_keeps_running(s) ==
    [s EXCEPT
        !.widget = [c \in Coords |->
            LET w == IF s.widget[c].kind = "QPushButton"
                     THEN [s.widget[c] EXCEPT !.enabled = FALSE]
                     ELSE s.widget[c]
            IN IF c \in s.mines
               THEN [w EXCEPT !.text = CROSS,
                              !.style = IF field_state(s, c[1], c[2]) = COVERED
                                        THEN MINE_MISSED_STYLE
                                        ELSE MINE_FOUND_STYLE]
               ELSE w],
        !.message = MSG_LOST]

\* __lose: ends the game, disables the buttons left and shows every mine.
lose(s) ==
    [s EXCEPT
        !.game_running = FALSE,
        !.widget = [c \in Coords |->
            LET w == IF s.widget[c].kind = "QPushButton"
                     THEN [s.widget[c] EXCEPT !.enabled = FALSE]
                     ELSE s.widget[c]
            IN IF c \in s.mines
               THEN [w EXCEPT !.text = CROSS,
                              !.style = IF field_state(s, c[1], c[2]) = COVERED
                                        THEN MINE_MISSED_STYLE
                                        ELSE MINE_FOUND_STYLE]
               ELSE w],
        !.message = MSG_LOST]

\* uncover_except with AlreadyUncoveredError handled by the MineFound clause.
uncover_except_already_loses(s, exc) ==
    CASE exc = "AlreadyUncoveredError" -> lose(s)
      [] exc = "FieldTaggedError" -> [s EXCEPT !.message = MSG_UNTAG]
      [] exc = "MineFound" -> lose(s)

\* uncover_except with FieldTaggedError swallowed like AlreadyUncoveredError.
uncover_except_tagged_silent(s, exc) ==
    CASE exc = "AlreadyUncoveredError" -> s
      [] exc = "FieldTaggedError" -> s
      [] exc = "MineFound" -> lose(s)

\* uncover_except with FieldTaggedError handled by the MineFound clause.
uncover_except_tagged_loses(s, exc) ==
    CASE exc = "AlreadyUncoveredError" -> s
      [] exc = "FieldTaggedError" -> lose([s EXCEPT !.message = MSG_UNTAG])
      [] exc = "MineFound" -> lose(s)

\* The except clauses with MineFound passed over like AlreadyUncoveredError.
uncover_except_mine_silent(s, exc) ==
    CASE exc = "AlreadyUncoveredError" -> s
      [] exc = "FieldTaggedError" -> [s EXCEPT !.message = MSG_UNTAG]
      [] exc = "MineFound" -> s

\* The except clauses of __uncover_field.
uncover_except(s, exc) ==
    CASE exc = "AlreadyUncoveredError" -> s
      [] exc = "FieldTaggedError" -> [s EXCEPT !.message = MSG_UNTAG]
      [] exc = "MineFound" -> lose(s)

\* The order in which __uncover_field looks at the eight neighbours.
CodeOrder ==
    << << -1, 0 >>, << -1, -1 >>, << 0, -1 >>, << 1, -1 >>,
       << 1, 0 >>, << 1, 1 >>, << 0, 1 >>, << -1, 1 >> >>

\* neighbour_covered with the test written as "is not uncovered".
neighbour_not_uncovered(s, nx, ny) ==
    /\ nx >= 0
    /\ nx < columns
    /\ ny >= 0
    /\ ny < rows
    /\ field_state(s, nx, ny) # UNCOVERED

\* The guard of one of the eight ifs: the neighbour is on the board and covered.
neighbour_covered(s, nx, ny) ==
    /\ nx >= 0
    /\ nx < columns
    /\ ny >= 0
    /\ ny < rows
    /\ field_state(s, nx, ny) = COVERED

RECURSIVE uncover_field(_, _, _, _, _)

\* One of the eight ifs under "if n == 0": the i-th neighbour of the order is
\* uncovered when it is on the board and covered.
\* Once a RecursionError is on its way out, the ifs that follow are not run.
uncover_neighbour(s, x, y, order, i, depth) ==
    LET nx == x + order[i][1]
        ny == y + order[i][2]
    IN IF s.error # "none"
       THEN s
       ELSE IF neighbour_covered(s, nx, ny)
            THEN uncover_field(s, nx, ny, order, depth + 1)
            ELSE s

\* The eight ifs under "if n == 0", one after the other: the session after
\* each of them, and the session after the last.
uncover_neighbours(s, x, y, order, depth) ==
    LET a1 == uncover_neighbour(s, x, y, order, 1, depth)
        a2 == uncover_neighbour(a1, x, y, order, 2, depth)
        a3 == uncover_neighbour(a2, x, y, order, 3, depth)
        a4 == uncover_neighbour(a3, x, y, order, 4, depth)
        a5 == uncover_neighbour(a4, x, y, order, 5, depth)
        a6 == uncover_neighbour(a5, x, y, order, 6, depth)
        a7 == uncover_neighbour(a6, x, y, order, 7, depth)
        a8 == uncover_neighbour(a7, x, y, order, 8, depth)
    IN << a1, a2, a3, a4, a5, a6, a7, a8 >>[8]

\* __uncover_field with the neighbours uncovered for a count of 1 as well.
uncover_field_up_to_one(s, x, y, order, depth) ==
    IF depth > s.room
    THEN [s EXCEPT !.error = "RecursionError"]
    ELSE
    LET r == uncover(s, x, y)
        s1 == [s EXCEPT
                  !.fields = r.fields,
                  !.log = Append(@, [x |-> x, y |-> y, exc |-> r.exc, n |-> r.n,
                                     depth |-> depth])]
    IN IF r.exc = "none"
       THEN LET s2 == [s1 EXCEPT !.widget[<< x, y >>] = Label(r.n)]
            IN IF r.n <= 1
               THEN uncover_neighbours(s2, x, y, order, depth)
               ELSE s2
       ELSE uncover_except(s1, r.exc)

\* __uncover_field(x, y), at the given recursion depth.  A call nested deeper
\* than the stack has room for raises RecursionError before it reaches the model;
\* none of the except clauses names it, so it leaves every enclosing call.
uncover_field(s, x, y, order, depth) ==
    IF depth > s.room
    THEN [s EXCEPT !.error = "RecursionError"]
    ELSE
    LET r == uncover(s, x, y)
        s1 == [s EXCEPT
                  !.fields = r.fields,
                  !.log = Append(@, [x |-> x, y |-> y, exc |-> r.exc, n |-> r.n,
                                     depth |-> depth])]
    IN IF r.exc = "none"
       THEN LET s2 == [s1 EXCEPT !.widget[<< x, y >>] = Label(r.n)]
            IN IF r.n = 0
               THEN uncover_neighbours(s2, x, y, order, depth)
               ELSE s2
       ELSE uncover_except(s1, r.exc)

\* tagged_button with the texts and styles of the two tags exchanged.
tagged_button_swapped(w, new_state) ==
    CASE new_state = COVERED -> [w EXCEPT !.style = "", !.text = ""]
      [] new_state = MINE_TAGGED -> [w EXCEPT !.style = MINE_POSSIBLE_STYLE, !.text = "?"]
      [] new_state = MINE_POSSIBLE -> [w EXCEPT !.style = MINE_TAGGED_STYLE, !.text = "!"]
      [] OTHER -> w

\* The widget of a button after switch_tagging returned new_state.
tagged_button(w, new_state) ==
    CASE new_state = COVERED -> [w EXCEPT !.style = "", !.text = ""]
      [] new_state = MINE_TAGGED -> [w EXCEPT !.style = MINE_TAGGED_STYLE, !.text = "!"]
      [] new_state = MINE_POSSIBLE -> [w EXCEPT !.style = MINE_POSSIBLE_STYLE, !.text = "?"]
      [] OTHER -> w

\* __tag_field with the elif calling model.switch_tagging again instead of
\* reading new_state: the field is switched twice.
tag_field_switches_twice(s, x, y) ==
    LET r == switch_tagging(s, x, y)
        r2 == switch_tagging([s EXCEPT !.fields = r.fields], x, y)
    IN IF r.exc = "none"
       THEN [s EXCEPT
                !.fields = r2.fields,
                !.widget[<< x, y >>] = tagged_button(@, r2.new_state),
                !.new_state = r2.new_state,
                !.exc = "none"]
       ELSE [s EXCEPT !.exc = r.exc]

\* __tag_field(x, y).
tag_field(s, x, y) ==
    LET r == switch_tagging(s, x, y) IN
    IF r.exc = "none"
    THEN [s EXCEPT
             !.fields = r.fields,
             !.widget[<< x, y >>] = tagged_button(@, r.new_state),
             !.new_state = r.new_state,
             !.exc = "none"]
    ELSE [s EXCEPT !.exc = r.exc]

\* The coordinates the handlers derive from a button position.
\* position_x computed as position_y is.
position_x_by_div(position) == position \div columns

position_x(position) == position % columns
position_y(position) == position \div columns

\* button_clicked without the test of game_running.
button_clicked_unguarded(s, position, room) ==
    LET x == position_x(position)
        y == position_y(position)
        t == uncover_field([s EXCEPT !.room = room], x, y, CodeOrder, 0)
    IN [t EXCEPT !.exc = IF t.error # "none" THEN t.error ELSE t.log[1].exc]

\* button_clicked(position), called where the stack has room for that many
\* nested calls.
button_clicked(s, position, room) ==
    LET x == position_x(position)
        y == position_y(position)
    IN IF s.game_running
       THEN LET t == uncover_field([s EXCEPT !.room = room], x, y, CodeOrder, 0)
            IN [t EXCEPT !.exc = IF t.error # "none" THEN t.error ELSE t.log[1].exc]
       ELSE [s EXCEPT !.message = MSG_RESTART]

\* button_right_clicked(position).
button_right_clicked(s, position) ==
    LET x == position_x(position)
        y == position_y(position)
    IN IF s.game_running
       THEN tag_field(s, x, y)
       ELSE [s EXCEPT !.message = MSG_RESTART]

\* ------------------------------------------------------------ state machine
\* __init__ with the number of columns handed to the model as n_mines.
Construct_columns_as_mines(c, r, m) ==
    /\ columns = c
    /\ rows = r
    /\ mine_count = m
    /\ game_running = TRUE
    /\ mines \in MinesweeperModel(c, r, c)
    /\ fields = [p \in (0 .. c - 1) \X (0 .. r - 1) |-> COVERED]
    /\ widget = [p \in (0 .. c - 1) \X (0 .. r - 1) |-> Button]
    /\ message = ""
    /\ last = [op |-> "none", position |-> 0, exc |-> "not_called", n |-> -1,
               new_state |-> "", log |-> << >>]
    /\ steps = 0

\* __init__(columns, rows, mines): the arguments are kept, the flag is set, the
\* model is built with them, and every cell of the grid shows a button.
Construct(c, r, m) ==
    /\ columns = c
    /\ rows = r
    /\ mine_count = m
    /\ game_running = TRUE
    /\ mines \in MinesweeperModel(c, r, m)
    /\ fields = [p \in (0 .. c - 1) \X (0 .. r - 1) |-> COVERED]
    /\ widget = [p \in (0 .. c - 1) \X (0 .. r - 1) |-> Button]
    /\ message = ""
    /\ last = [op |-> "none", position |-> 0, exc |-> "not_called", n |-> -1,
               new_state |-> "", log |-> << >>]
    /\ steps = 0

\* The sessions start on any board of Boards with any valid number of mines,
\* from none to one on every field.
Init ==
    \E b \in Boards : \E m \in 0 .. b[1] * b[2] : Construct(b[1], b[2], m)

\* The session after a handler has run, or after a RecursionError has left it:
\* what the handler had done by then stays done.
Becomes(t, op, position) ==
    /\ steps' = steps + 1
    /\ mines' = t.mines
    /\ fields' = t.fields
    /\ game_running' = t.game_running
    /\ widget' = t.widget
    /\ message' = t.message
    /\ last' = [op |-> op, position |-> position, exc |-> t.exc,
                n |-> IF t.log # << >> THEN t.log[1].n ELSE -1,
                new_state |-> t.new_state, log |-> t.log]
    /\ UNCHANGED << columns, rows, mine_count >>

\* A left click on the button at a position, with some room on the stack.
ButtonClicked ==
    /\ steps < SessionLength
    /\ \E position \in Positions, room \in StackRooms :
        Becomes(button_clicked(Session, position, room), "button_clicked", position)

\* A right click on the button at a position.
ButtonRightClicked ==
    /\ steps < SessionLength
    /\ \E position \in Positions :
        Becomes(button_right_clicked(Session, position), "button_right_clicked", position)

Next == ButtonClicked \/ ButtonRightClicked

Spec == Init /\ [][Next]_vars

\* The games in which the player never right-clicks.
SpecNoTags == Init /\ [][ButtonClicked]_vars

\* ------------------------------------------------------------- properties
\* The field the last player action addressed: position = columns * y + x.
Target == << last.position % columns, last.position \div columns >>

Clicked == last.op = "button_clicked"
RightClicked == last.op = "button_right_clicked"

\* The uncovered and the tagged fields.
Uncovered == { c \in Coords : fields[c] = UNCOVERED }
Tagged == { c \in Coords : fields[c] \in {MINE_TAGGED, MINE_POSSIBLE} }

\* The tagging ring, written out.
Ring ==
    (COVERED :> MINE_TAGGED) @@ (MINE_TAGGED :> MINE_POSSIBLE) @@ (MINE_POSSIBLE :> COVERED)

\* What a button shows for each state of the ring.
RingText == (COVERED :> "") @@ (MINE_TAGGED :> "!") @@ (MINE_POSSIBLE :> "?")

\* C1: every field starts Covered, and a field changes state only from Covered
\* to Uncovered (by a click) or one step along the tagging ring (by a right
\* click); a tagged field is never uncovered directly and an Uncovered field
\* never changes again.
C1_FieldTransitions ==
    /\ \A c \in Coords : fields[c] = COVERED
    /\ [][\A c \in Coords :
            fields'[c] # fields[c] =>
                \/ /\ fields[c] = COVERED
                   /\ fields'[c] = UNCOVERED
                   /\ Clicked'
                \/ /\ fields[c] # UNCOVERED
                   /\ fields'[c] # UNCOVERED
                   /\ fields'[c] = Ring[fields[c]]
                   /\ RightClicked']_vars

\* C1 witness: a field has gone round the whole ring, from Covered by way of
\* MineTagged and MinePossible to Covered again, by three right clicks.
C1_Witness ==
    /\ steps = 3
    /\ RightClicked
    /\ last.exc = "none"
    /\ last.new_state = COVERED
    /\ fields[Target] = COVERED

\* C2: a click or right click on an Uncovered field changes no field, no widget
\* and not the flag, makes no recursive call, and the model's answer, when the
\* game is running and the model is asked, is AlreadyUncoveredError; the same
\* holds of __uncover_field and __tag_field called on any Uncovered field.
C2_UncoveredIsTerminal ==
    [][/\ fields[Target'] = UNCOVERED =>
            /\ fields' = fields
            /\ widget' = widget
            /\ game_running' = game_running
            /\ Len(last'.log) <= 1
            /\ game_running => last'.exc = "AlreadyUncoveredError"
       /\ \A c \in Uncovered :
            \A u \in { uncover_field(Session, c[1], c[2], CodeOrder, 0) },
               g \in { tag_field(Session, c[1], c[2]) } :
               /\ u.fields = fields /\ u.game_running = game_running
               /\ Len(u.log) = 1 /\ u.log[1].exc = "AlreadyUncoveredError"
               /\ g.fields = fields /\ g.game_running = game_running
               /\ g.exc = "AlreadyUncoveredError"]_vars

\* C2 witness: the game is running and the last action, on an Uncovered field
\* that has Covered neighbours left, was answered AlreadyUncoveredError.
C2_Witness ==
    /\ game_running
    /\ last.exc = "AlreadyUncoveredError"
    /\ fields[Target] = UNCOVERED
    /\ \E c \in neighbours(Target[1], Target[2]) : fields[c] = COVERED

\* C3: while the game is running, a click on a MineTagged or MinePossible field,
\* mined or not, is answered FieldTaggedError: no field and no widget changes,
\* the game stays running and the status bar asks to untag the field.
C3_TaggedFieldProtected ==
    [][(game_running /\ Clicked' /\ fields[Target'] \in {MINE_TAGGED, MINE_POSSIBLE}) =>
            /\ last'.exc = "FieldTaggedError"
            /\ Len(last'.log) = 1
            /\ fields' = fields
            /\ widget' = widget
            /\ game_running'
            /\ message' = MSG_UNTAG]_vars

\* C3 witness: a click on a MinePossible field that holds a mine has been
\* rejected with the message to untag it, and the game is running still.
C3_Witness ==
    /\ Clicked
    /\ last.exc = "FieldTaggedError"
    /\ Target \in mines
    /\ fields[Target] = MINE_POSSIBLE
    /\ message = MSG_UNTAG
    /\ game_running

\* Three right clicks in a row on the field at a position, from session s.
ThreeTags(s, position) ==
    LET t1 == button_right_clicked(s, position)
        t2 == button_right_clicked(t1, position)
        t3 == button_right_clicked(t2, position)
    IN << t1, t2, t3 >>

\* C4: while the game is running, a right click on a field that is not Uncovered
\* moves exactly that field one step along the ring Covered, MineTagged,
\* MinePossible, Covered, returns the new state (which the button then shows),
\* and changes no other field; three right clicks in a row on it restore all
\* fields and widgets, and from Covered they return MineTagged, MinePossible,
\* Covered.
C4_TaggingRing ==
    [][(game_running /\ RightClicked' /\ fields[Target'] # UNCOVERED) =>
            /\ last'.exc = "none"
            /\ fields' = [fields EXCEPT ![Target'] = Ring[@]]
            /\ last'.new_state = fields'[Target']
            /\ widget' = [widget EXCEPT ![Target'].text = RingText[last'.new_state],
                                        ![Target'].style =
                                            IF last'.new_state = COVERED
                                            THEN ""
                                            ELSE last'.new_state \o "_STYLE"]
            /\ game_running'
            /\ \A t \in { ThreeTags(Session, last'.position) } :
                  /\ t[3].fields = fields
                  /\ t[3].widget = widget
                  /\ t[1].fields = fields'
                  /\ fields[Target'] = COVERED =>
                        << t[1].new_state, t[2].new_state, t[3].new_state >>
                            = << MINE_TAGGED, MINE_POSSIBLE, COVERED >>]_vars

\* C4 witness: the session's first two actions were right clicks on one field, and
\* the second returned MinePossible.
C4_Witness ==
    /\ steps = 2
    /\ RightClicked
    /\ last.new_state = MINE_POSSIBLE
    /\ fields[Target] = MINE_POSSIBLE
    /\ \A c \in Coords \ {Target} : fields[c] = COVERED
    /\ game_running

\* The number of mines around a field, counted over the mine layout.
MinesAround(c) ==
    Cardinality({ m \in mines :
        /\ m # c
        /\ m[1] - c[1] \in {-1, 0, 1}
        /\ m[2] - c[2] \in {-1, 0, 1} })

\* Two different fields that touch, diagonals included.
Adjacent(a, b) ==
    /\ a # b
    /\ a[1] - b[1] \in {-1, 0, 1}
    /\ a[2] - b[2] \in {-1, 0, 1}

\* The flood fill of the mine layout from a field: the least set that holds the
\* field and, with every mine-free field of count 0, all fields that touch it.
RECURSIVE FloodFill(_)
FloodFill(S) ==
    LET grown == S \cup { c \in Coords :
                    \E z \in S : z \notin mines /\ MinesAround(z) = 0 /\ Adjacent(z, c) }
    IN IF grown = S THEN S ELSE FloodFill(grown)

\* A click on a Covered, mine-free field of count 0 while the game is running.
ZeroClick ==
    /\ game_running
    /\ Clicked'
    /\ fields[Target'] = COVERED
    /\ Target' \notin mines
    /\ MinesAround(Target') = 0

\* No field is tagged, and every Uncovered mine-free field of count 0 has all
\* the fields that touch it Uncovered: so it is on a fresh board and as long
\* as no field has been tagged.
NoTagNoGap ==
    /\ Tagged = {}
    /\ \A z \in Uncovered :
            (z \notin mines /\ MinesAround(z) = 0) =>
                \A c \in Coords : Adjacent(z, c) => c \in Uncovered

\* C5 as stated: a click on a field of a zero region uncovers the whole region
\* and the numbered fields around it, whatever the state of the board: the
\* Uncovered fields afterwards are those before and the flood fill of the mine
\* layout from the field.
C5_FloodFillAnyBoard ==
    [][ZeroClick => Uncovered' = Uncovered \cup FloodFill({Target'})]_vars

\* C5 on the boards where no tag stands in the way: when no field is tagged
\* and no earlier zero field has a neighbour left to uncover, a click on a
\* Covered field of a zero region uncovers the whole region and the numbered
\* fields around it, and nothing else: the Uncovered fields afterwards are
\* those before and the flood fill of the mine layout from the field.  It
\* fails when a RecursionError cuts the flood fill short.
C5_FloodFill ==
    [][(ZeroClick /\ NoTagNoGap) =>
            /\ Uncovered' = Uncovered \cup FloodFill({Target'})
            /\ Tagged' = {}
            /\ game_running']_vars

\* Orders of the eight directions: the code's order and its reverse, each
\* started at the left, top, right and bottom neighbour, the straight
\* neighbours before the diagonal ones, and the diagonal ones first.
Rotated(order, k) == [i \in 1 .. 8 |-> order[((i + k - 1) % 8) + 1]]
Reversed(order) == [i \in 1 .. 8 |-> order[9 - i]]
DirOrders ==
    { Rotated(CodeOrder, k) : k \in {0, 2, 4, 6} }
    \cup { Rotated(Reversed(CodeOrder), k) : k \in {1, 3, 5, 7} }
    \cup { << << 0, -1 >>, << 1, 0 >>, << 0, 1 >>, << -1, 0 >>,
              << -1, -1 >>, << 1, -1 >>, << 1, 1 >>, << -1, 1 >> >>,
           << << 1, 1 >>, << -1, -1 >>, << 1, -1 >>, << -1, 1 >>,
              << 1, 0 >>, << -1, 0 >>, << 0, 1 >>, << 0, -1 >> >> }

\* C6: whatever the mine layout, the tagged fields and the field clicked, the
\* fields, the widgets, the flag and the status bar after a click are the same
\* for every order of DirOrders in which the eight directions are examined.
\* The click is run with every order on a stack with the same room.  It fails
\* when a RecursionError cuts the flood fill short, after the fields the order
\* came to first.
C6_OrderIndependent ==
    [][(game_running /\ Clicked') =>
            \A room \in StackRooms :
                \A c \in { uncover_field([Session EXCEPT !.room = room],
                                         Target'[1], Target'[2], CodeOrder, 0) } :
                    \A order \in DirOrders :
                        \A t \in { uncover_field([Session EXCEPT !.room = room],
                                                 Target'[1], Target'[2], order, 0) } :
                            /\ t.fields = c.fields
                            /\ t.widget = c.widget
                            /\ t.game_running = c.game_running
                            /\ t.message = c.message
                            /\ Len(t.log) = Len(c.log)]_vars

\* C7: in the step that loses the game every mine is marked, and it is shown as
\* found exactly when it was MineTagged before the click, and as missed when
\* it was Covered or MinePossible, the clicked mine included.
C7_LossReport ==
    [][(game_running /\ ~game_running') =>
            \A m \in mines :
                /\ widget'[m].text = CROSS
                /\ widget'[m].style = MINE_FOUND_STYLE <=> fields[m] = MINE_TAGGED
                /\ widget'[m].style = MINE_MISSED_STYLE <=> fields[m] # MINE_TAGGED]_vars

\* C8: while the game is running, a click on a Covered field that holds a mine
\* is answered MineFound: the flag becomes false, the field becomes Uncovered,
\* no other field changes and no neighbour is visited.
C8_MineFound ==
    [][(game_running /\ Clicked' /\ fields[Target'] = COVERED /\ Target' \in mines) =>
            /\ last'.exc = "MineFound"
            /\ Len(last'.log) = 1
            /\ ~game_running'
            /\ fields' = [fields EXCEPT ![Target'] = UNCOVERED]
            /\ message' = MSG_LOST]_vars

\* C8 witness: the game was lost by the click on a mine, other fields being
\* Covered or tagged still.
C8_Witness ==
    /\ Clicked
    /\ last.exc = "MineFound"
    /\ Target \in mines
    /\ fields[Target] = UNCOVERED
    /\ ~game_running
    /\ \E c \in Coords : fields[c] = COVERED

\* C9: the flag starts true; it changes only from true to false, and only in a
\* click on a mine that the model answers with MineFound; once false it stays
\* false.
C9_RunningFlag ==
    /\ game_running = TRUE
    /\ [][/\ game_running' # game_running =>
                /\ game_running
                /\ Clicked'
                /\ last'.exc = "MineFound"
                /\ Target' \in mines
          /\ ~game_running => ~game_running']_vars

\* C9 witness: the game was lost, and a click came after the loss.
C9_Witness ==
    /\ ~game_running
    /\ Clicked
    /\ last.exc = "not_called"
    /\ steps >= 2

\* C10: once the game is lost, every click and every right click, at any
\* position, is answered with the restart message only: the model is not
\* called, and the fields, the widgets, the mines and the flag stay as they are.
C10_RejectedAfterLoss ==
    [][~game_running =>
            /\ message' = MSG_RESTART
            /\ last'.exc = "not_called"
            /\ last'.log = << >>
            /\ last'.new_state = ""
            /\ fields' = fields
            /\ widget' = widget
            /\ mines' = mines
            /\ ~game_running']_vars

\* C10 witness: after the loss a right click on a field that is still Covered
\* was rejected with the restart message.
C10_Witness ==
    /\ ~game_running
    /\ RightClicked
    /\ last.exc = "not_called"
    /\ message = MSG_RESTART
    /\ fields[Target] = COVERED

\* The field of the i-th call of model.uncover in the last action.
LogField(i) == << last.log[i].x, last.log[i].y >>

\* C11: a click ends, on every board: the handler returns with no RecursionError
\* leaving it, each recursive call of __uncover_field turns one field that
\* was Covered into Uncovered, no field is uncovered twice in one click, and
\* the number of calls and the depth of the recursion are at most
\* columns * rows.  It fails where the flood fill asks for more nested calls
\* than the stack has room for.
C11_RevealTerminates ==
    [][(game_running /\ Clicked') =>
            /\ last'.exc # "RecursionError"
            /\ Len(last'.log) >= 1
            /\ Len(last'.log) <= columns * rows
            /\ \A i \in 1 .. Len(last'.log) :
                    /\ LogField(i)' \in Coords
                    /\ last'.log[i].depth + 1 <= columns * rows
                    /\ i >= 2 =>
                        /\ last'.log[i].exc = "none"
                        /\ fields[LogField(i)'] = COVERED
                        /\ fields'[LogField(i)'] = UNCOVERED
                        /\ \E j \in 1 .. i - 1 :
                                /\ last'.log[j].depth + 1 = last'.log[i].depth
                                /\ last'.log[j].n = 0
                                /\ Adjacent(LogField(j)', LogField(i)')
            /\ \A i, j \in 1 .. Len(last'.log) : LogField(i)' = LogField(j)' => i = j
            /\ Uncovered' \ Uncovered \subseteq { LogField(i)' : i \in 1 .. Len(last'.log) }]_vars

\* The flood fill from a field that stops at the fields that are not Covered:
\* the least set that holds the field and, with every field of count 0, the
\* Covered fields that touch it.
RECURSIVE CoveredFill(_)
CoveredFill(S) ==
    LET grown == S \cup { c \in Coords :
                    /\ fields[c] = COVERED
                    /\ \E z \in S : z \notin mines /\ MinesAround(z) = 0 /\ Adjacent(z, c) }
    IN IF grown = S THEN S ELSE CoveredFill(grown)

\* C12: the flood fill of a click enters only neighbours on the board that are
\* Covered: no field that was MineTagged or MinePossible changes, and the
\* fields uncovered are among those reached from the clicked field through
\* Covered fields only, never through a tagged one: all of them when the click
\* returns, the first of them when a RecursionError leaves it.
C12_FloodFillSkipsTagged ==
    [][(game_running /\ Clicked') =>
            /\ \A c \in Tagged : fields'[c] = fields[c] /\ widget'[c].kind = widget[c].kind
            /\ \A i \in 2 .. Len(last'.log) :
                    LogField(i)' \in Coords /\ fields[LogField(i)'] = COVERED
            /\ (fields[Target'] = COVERED /\ Target' \notin mines) =>
                    /\ Uncovered' \subseteq Uncovered \cup CoveredFill({Target'})
                    /\ last'.exc # "RecursionError" =>
                            Uncovered' = Uncovered \cup CoveredFill({Target'})]_vars

\* C12 witness: a click has uncovered a field of count 0 beside a MinePossible
\* field; that field is MinePossible still, and a field behind it, which the
\* flood fill of the mine layout reaches, is Covered still.
C12_Witness ==
    /\ Clicked
    /\ game_running
    /\ \E i \in 1 .. Len(last.log), c, d \in Coords :
            /\ last.log[i].exc = "none"
            /\ last.log[i].n = 0
            /\ fields[c] = MINE_POSSIBLE
            /\ Adjacent(LogField(i), c)
            /\ fields[d] = COVERED
            /\ Adjacent(c, d)
            /\ d \in FloodFill({Target})
            /\ \A z \in Uncovered : ~Adjacent(z, d)

\* C13: __lose, in whatever state it is called, sets the flag to false and
\* leaves every field's state and the mines as they are; in the step that loses
\* the game the only field that changes is the one the model uncovered.
C13_LoseReadOnly ==
    [][/\ \A t \in { lose(Session) } :
            /\ t.fields = fields
            /\ t.mines = mines
            /\ ~t.game_running
            /\ \A c \in Coords : t.widget[c].kind = widget[c].kind
       /\ (game_running /\ ~game_running') =>
            /\ mines' = mines
            /\ mine_count' = mine_count
            /\ fields' = uncover(Session, Target'[1], Target'[2]).fields
            /\ \A c \in Coords \ {Target'} : fields'[c] = fields[c]]_vars

\* C13 witness: the game is lost with two mines on the board, the other mine
\* being tagged as it was before the loss.
C13_Witness ==
    /\ ~game_running
    /\ Clicked
    /\ last.exc = "MineFound"
    /\ \E m \in mines : m # Target /\ fields[m] = MINE_TAGGED /\ widget[m].text = CROSS

\* C14: for every number of mines from 0 to columns * rows the constructor is
\* given, exactly that many fields of the board hold a mine after construction,
\* and no click and no right-click changes the set of mined fields or the count.
C14_MinesFixed ==
    /\ mine_count \in 0 .. columns * rows
    /\ Cardinality(mines) = mine_count
    /\ mines \subseteq Coords
    /\ [][/\ mines' = mines
          /\ mine_count' = mine_count
          /\ Cardinality(mines') = mine_count']_vars

\* C14 witness: a board of three fields or more with a mine on every field,
\* after a right-click that tagged a field and a click that lost the game.
C14_Witness ==
    /\ mine_count = columns * rows
    /\ mine_count >= 3
    /\ mines = Coords
    /\ steps >= 2
    /\ Uncovered # {}
    /\ Tagged # {}

C16_RecursiveUncoverSucceeds ==
    [][/\ \A i \in 2 .. Len(last'.log) : last'.log[i].exc = "none"
       /\ (game_running /\ Clicked' /\ Len(last'.log) >= 2) =>
            /\ game_running' = TRUE
            /\ message' = message
            /\ last'.log[1].exc = "none"
            /\ last'.exc \in {"none", "RecursionError"}
       /\ (game_running /\ ~game_running') =>
            /\ Clicked'
            /\ Len(last'.log) = 1
            /\ last'.log[1].exc = "MineFound"
            /\ LogField(1)' = Target'
            /\ Target' \in mines
       /\ (Clicked' /\ message' # message /\ message' = MSG_UNTAG) =>
            /\ Len(last'.log) = 1
            /\ last'.log[1].exc = "FieldTaggedError"
            /\ LogField(1)' = Target']_vars

\* C16 witness: on a board with a mine a flood fill has uncovered two fields by
\* recursive calls, one of them beside the mine (its count is not 0), and has
\* passed over a MinePossible field beside a field of count 0; the game is
\* still running.
C16_Witness ==
    /\ Clicked
    /\ game_running
    /\ mines # {}
    /\ Len(last.log) >= 3
    /\ \E i \in 2 .. Len(last.log) :
            /\ last.log[i].exc = "none"
            /\ last.log[i].n >= 1
            /\ \E m \in mines : Adjacent(LogField(i), m)
    /\ \E j \in 1 .. Len(last.log), c \in Coords :
            /\ last.log[j].n = 0
            /\ fields[c] = MINE_POSSIBLE
            /\ Adjacent(LogField(j), c)

\* The mined fields that are Uncovered.
MinesUncovered == Uncovered \cap mines

\* C17: the flag is false exactly when one mined field is Uncovered, never are
\* two mined fields Uncovered, and the flag is true still when every mine-free
\* field is Uncovered and no mine is.
C17_RunningIffNoMineUncovered ==
    /\ game_running = FALSE <=> Cardinality(MinesUncovered) = 1
    /\ game_running = TRUE <=> MinesUncovered = {}
    /\ Cardinality(MinesUncovered) <= 1
    /\ (Coords \ mines \subseteq Uncovered /\ MinesUncovered = {}) => game_running = TRUE

\* C17 witness: a board with a mine on which every mine-free field is
\* Uncovered, and the game is running.
C17_Witness ==
    /\ mines # {}
    /\ Coords \ mines # {}
    /\ Coords \ mines \subseteq Uncovered
    /\ MinesUncovered = {}
    /\ game_running

\* C18: in a game without right-clicks, every field that touches an Uncovered
\* mine-free field of count 0 is Uncovered.  It fails after a
\* RecursionError has left a click.
C18_NoGapWithoutTags ==
    \A z \in Uncovered \ mines :
        MinesAround(z) = 0 =>
            \A c \in Coords : Adjacent(z, c) => fields[c] = UNCOVERED

\* The field of position p, counted row by row from the top left.
RECURSIVE FieldOf(_)
FieldOf(p) ==
    IF p < columns THEN << p, 0 >>
    ELSE LET below == FieldOf(p - columns) IN << below[1], below[2] + 1 >>

\* What the handlers derive for each position of the grid: x and y are on the
\* board, columns * y + x is the position, the field is the one counted row by
\* row, and two positions never give the same field.
PositionsOnBoard ==
    /\ \A p \in Positions :
            /\ position_x(p) \in 0 .. columns - 1
            /\ position_y(p) \in 0 .. rows - 1
            /\ columns * position_y(p) + position_x(p) = p
            /\ << position_x(p), position_y(p) >> = FieldOf(p)
    /\ \A p, q \in Positions :
            << position_x(p), position_y(p) >> = << position_x(q), position_y(q) >> => p = q

\* C19: for every position p of the grid the handlers derive x and y on the
\* board with columns * y + x = p, distinct positions give distinct fields,
\* and a click and a right-click at p act on that same field.
C19_PositionToField ==
    /\ PositionsOnBoard
    /\ (Clicked /\ last.log # << >>) => LogField(1) = FieldOf(last.position)
    /\ (RightClicked /\ last.exc = "none") => fields[FieldOf(last.position)] = last.new_state

\* C19 witness: the last position of the grid has been right-clicked and then
\* clicked, and the click was refused for the tag on that field.
C19_Witness ==
    /\ Clicked
    /\ last.position = columns * rows - 1
    /\ last.log # << >>
    /\ last.log[1].exc = "FieldTaggedError"
    /\ fields[FieldOf(last.position)] = MINE_TAGGED
====
